---- MODULE Spec2Model ----
(***************************************************************************)
(* treemap.Map: an ordered map kept in a red-black tree.                   *)
(*                                                                         *)
(* The Map methods (Insert, Get, Erase, EraseIter, Find, LowerBound,       *)
(* Begin, First, Last, Clear, Contains, Size, Traversal) are the package   *)
(* source.  The tree engine they delegate to (package rbtree) and the      *)
(* MapIterator are described by the design document, sections 3 and 4;     *)
(* their operators below follow that description step by step.             *)
(*                                                                         *)
(* A tree is a record [root, size, node]: node is the heap of Node         *)
(* records, addressed 1..Len(node); Nil is the absent reference.           *)
(***************************************************************************)
EXTENDS Integers, Sequences, FiniteSets, TLC

(* ---- bounds ---- *)
MaxKey == 3
MaxVal == 2
MaxTreeKey == 9
MaxSafeKey == 1
NumGoroutines == 2

Keys == 1..MaxKey
Vals == 1..MaxVal
TreeKeys == 1..MaxTreeKey
SafeKeys == 1..MaxSafeKey
Goroutines == 1..NumGoroutines

(* ---- node layout ---- *)
Nil == 0
NilVal == 0
Stale == 0 - 1
RED == "RED"
BLACK == "BLACK"

Node(k, v, c, p) ==
  [key |-> k, value |-> v, color |-> c, parent |-> p, left |-> Nil, right |-> Nil]

EmptyTree == [root |-> Nil, size |-> 0, node |-> <<>>]

Parent(t, n) == t.node[n].parent
Left(t, n) == t.node[n].left
Right(t, n) == t.node[n].right
KeyOf(t, n) == t.node[n].key
ValueOf(t, n) == t.node[n].value
\* the colour of a reference; an absent child counts as BLACK
ColorOf(t, n) == IF n = Nil THEN BLACK ELSE t.node[n].color

SetColor(t, n, c) == IF n = Nil THEN t ELSE [t EXCEPT !.node[n].color = c]

\* comparator.BuiltinTypeComparator on integer keys
keyCmp(a, b) == IF a < b THEN 0 - 1 ELSE IF a > b THEN 1 ELSE 0

(* ---- rotation primitives ---- *)
LeftRotate(t, x) ==
  LET y == Right(t, x)
      b == Left(t, y)
      p == Parent(t, x)
      t1 == [t EXCEPT !.node[x].right = b]
      t2 == IF b # Nil THEN [t1 EXCEPT !.node[b].parent = x] ELSE t1
      t3 == [t2 EXCEPT !.node[y].parent = p]
      t4 == IF p = Nil THEN [t3 EXCEPT !.root = y]
            ELSE IF x = Left(t3, p) THEN [t3 EXCEPT !.node[p].left = y]
            ELSE [t3 EXCEPT !.node[p].right = y]
  IN [t4 EXCEPT !.node[y].left = x, !.node[x].parent = y]

RightRotate(t, x) ==
  LET y == Left(t, x)
      b == Right(t, y)
      p == Parent(t, x)
      t1 == [t EXCEPT !.node[x].left = b]
      t2 == IF b # Nil THEN [t1 EXCEPT !.node[b].parent = x] ELSE t1
      t3 == [t2 EXCEPT !.node[y].parent = p]
      t4 == IF p = Nil THEN [t3 EXCEPT !.root = y]
            ELSE IF x = Right(t3, p) THEN [t3 EXCEPT !.node[p].right = y]
            ELSE [t3 EXCEPT !.node[p].left = y]
  IN [t4 EXCEPT !.node[y].right = x, !.node[x].parent = y]

(* ---- navigation ---- *)
RECURSIVE Minimum(_, _)
Minimum(t, n) == IF Left(t, n) = Nil THEN n ELSE Minimum(t, Left(t, n))

RECURSIVE Maximum(_, _)
Maximum(t, n) == IF Right(t, n) = Nil THEN n ELSE Maximum(t, Right(t, n))

TreeFirst(t) == IF t.root = Nil THEN Nil ELSE Minimum(t, t.root)
TreeLast(t) == IF t.root = Nil THEN Nil ELSE Maximum(t, t.root)

\* successor that stops at the parent
AscendRightOnce(t, n) == Parent(t, n)

\* ascend while the node is its parent's right child
RECURSIVE AscendRight(_, _)
AscendRight(t, n) ==
  LET p == Parent(t, n) IN
  IF p # Nil /\ n = Right(t, p) THEN AscendRight(t, p) ELSE p

RECURSIVE AscendLeft(_, _)
AscendLeft(t, n) ==
  LET p == Parent(t, n) IN
  IF p # Nil /\ n = Left(t, p) THEN AscendLeft(t, p) ELSE p

Successor(t, n) ==
  IF Right(t, n) # Nil THEN Minimum(t, Right(t, n)) ELSE AscendRight(t, n)

Predecessor(t, n) ==
  IF Left(t, n) # Nil THEN Maximum(t, Left(t, n)) ELSE AscendLeft(t, n)

(* ---- search ---- *)
RECURSIVE SearchFrom(_, _, _)
SearchFrom(t, x, key) ==
  IF x = Nil THEN Nil
  ELSE IF keyCmp(key, KeyOf(t, x)) < 0 THEN SearchFrom(t, Left(t, x), key)
  ELSE IF keyCmp(key, KeyOf(t, x)) > 0 THEN SearchFrom(t, Right(t, x), key)
  ELSE x

FindNode(t, key) == SearchFrom(t, t.root, key)

\* the value of the node found, or nil
TreeFind(t, key) ==
  LET n == FindNode(t, key) IN IF n # Nil THEN ValueOf(t, n) ELSE NilVal

\* descent that remembers the best candidate whenever the node's key >= key
RECURSIVE LowerBoundFrom(_, _, _, _)
LowerBoundFrom(t, x, key, best) ==
  IF x = Nil THEN best
  ELSE IF keyCmp(KeyOf(t, x), key) >= 0 THEN LowerBoundFrom(t, Left(t, x), key, x)
  ELSE LowerBoundFrom(t, Right(t, x), key, best)

FindLowerBoundNode(t, key) == LowerBoundFrom(t, t.root, key, Nil)

(* ---- insertion ---- *)
RECURSIVE RbInsertFixup(_, _)
RbInsertFixup(t, z) ==
  LET p == Parent(t, z) IN
  IF p = Nil \/ ColorOf(t, p) # RED \/ Parent(t, p) = Nil
  THEN SetColor(t, t.root, BLACK)
  ELSE
    LET g == Parent(t, p) IN
    IF p = Left(t, g) THEN
      LET u == Right(t, g) IN
      IF ColorOf(t, u) = RED
      THEN RbInsertFixup(SetColor(SetColor(SetColor(t, p, BLACK), u, BLACK), g, RED), g)
      ELSE
        LET tri == z = Right(t, p)
            t1 == IF tri THEN LeftRotate(t, p) ELSE t
            z1 == IF tri THEN p ELSE z
            p1 == Parent(t1, z1)
            g1 == Parent(t1, p1)
            t2 == SetColor(SetColor(t1, p1, BLACK), g1, RED)
        IN RbInsertFixup(RightRotate(t2, g1), z1)
    ELSE
      LET u == Left(t, g) IN
      IF ColorOf(t, u) = RED
      THEN RbInsertFixup(SetColor(SetColor(SetColor(t, p, BLACK), u, BLACK), g, RED), g)
      ELSE
        LET tri == z = Left(t, p)
            t1 == IF tri THEN RightRotate(t, p) ELSE t
            z1 == IF tri THEN p ELSE z
            p1 == Parent(t1, z1)
            g1 == Parent(t1, p1)
            t2 == SetColor(SetColor(t1, p1, BLACK), g1, RED)
        IN RbInsertFixup(LeftRotate(t2, g1), z1)

\* the leaf position found by descent: the node the new one hangs from
RECURSIVE InsertPos(_, _, _, _)
InsertPos(t, x, y, key) ==
  IF x = Nil THEN y
  ELSE IF keyCmp(key, KeyOf(t, x)) < 0 THEN InsertPos(t, Left(t, x), x, key)
  ELSE InsertPos(t, Right(t, x), x, key)

\* the new node is hung in place and left RED, with no fixup
TreeInsertNoFixup(t, key, value) ==
  LET y == InsertPos(t, t.root, Nil, key)
      z == Len(t.node) + 1
      t1 == [t EXCEPT !.node = Append(t.node, Node(key, value, RED, y)),
                      !.size = t.size + 1]
  IN IF y = Nil THEN [t1 EXCEPT !.root = z]
     ELSE IF keyCmp(key, KeyOf(t, y)) < 0 THEN [t1 EXCEPT !.node[y].left = z]
     ELSE [t1 EXCEPT !.node[y].right = z]

TreeInsert(t, key, value) ==
  LET y == InsertPos(t, t.root, Nil, key)
      z == Len(t.node) + 1
      t1 == [t EXCEPT !.node = Append(t.node, Node(key, value, RED, y)),
                      !.size = t.size + 1]
      t2 == IF y = Nil THEN [t1 EXCEPT !.root = z]
            ELSE IF keyCmp(key, KeyOf(t, y)) < 0 THEN [t1 EXCEPT !.node[y].left = z]
            ELSE [t1 EXCEPT !.node[y].right = z]
  IN RbInsertFixup(t2, z)

(* ---- deletion ---- *)
RECURSIVE RbDeleteFixup(_, _, _)
RbDeleteFixup(t, x, xp) ==
  IF x = t.root \/ ColorOf(t, x) = RED THEN SetColor(t, x, BLACK)
  ELSE IF x = Left(t, xp) THEN
    LET w == Right(t, xp) IN
    IF ColorOf(t, w) = RED
    THEN RbDeleteFixup(LeftRotate(SetColor(SetColor(t, w, BLACK), xp, RED), xp), x, xp)
    ELSE IF ColorOf(t, Left(t, w)) = BLACK /\ ColorOf(t, Right(t, w)) = BLACK
    THEN RbDeleteFixup(SetColor(t, w, RED), xp, Parent(t, xp))
    ELSE
      LET near == ColorOf(t, Right(t, w)) = BLACK
          t1 == IF near
                THEN RightRotate(SetColor(SetColor(t, Left(t, w), BLACK), w, RED), w)
                ELSE t
          w1 == Right(t1, xp)
          t2 == SetColor(t1, w1, ColorOf(t1, xp))
          t3 == SetColor(SetColor(t2, xp, BLACK), Right(t2, w1), BLACK)
          t4 == LeftRotate(t3, xp)
      IN SetColor(t4, t4.root, BLACK)
  ELSE
    LET w == Left(t, xp) IN
    IF ColorOf(t, w) = RED
    THEN RbDeleteFixup(RightRotate(SetColor(SetColor(t, w, BLACK), xp, RED), xp), x, xp)
    ELSE IF ColorOf(t, Left(t, w)) = BLACK /\ ColorOf(t, Right(t, w)) = BLACK
    THEN RbDeleteFixup(SetColor(t, w, RED), xp, Parent(t, xp))
    ELSE
      LET near == ColorOf(t, Left(t, w)) = BLACK
          t1 == IF near
                THEN LeftRotate(SetColor(SetColor(t, Right(t, w), BLACK), w, RED), w)
                ELSE t
          w1 == Left(t1, xp)
          t2 == SetColor(t1, w1, ColorOf(t1, xp))
          t3 == SetColor(SetColor(t2, xp, BLACK), Left(t2, w1), BLACK)
          t4 == RightRotate(t3, xp)
      IN SetColor(t4, t4.root, BLACK)

\* the node that is spliced out when z is deleted: z itself, or its in-order
\* successor when z has two children
SplicedNode(t, z) ==
  IF Left(t, z) # Nil /\ Right(t, z) # Nil THEN Successor(t, z) ELSE z

\* z and its successor y swap key and value
SwapKeyValue(t, z, y) ==
  IF y # z
  THEN [t EXCEPT !.node[z].key = KeyOf(t, y), !.node[z].value = ValueOf(t, y),
                 !.node[y].key = KeyOf(t, z), !.node[y].value = ValueOf(t, z)]
  ELSE t

\* the only child of the spliced node, or nil
SplicedChild(t, y) == IF Left(t, y) # Nil THEN Left(t, y) ELSE Right(t, y)

\* y is unlinked: its child x takes its place under its parent xp
Unlink(t, y, x, xp) ==
  LET t1 == IF x # Nil THEN [t EXCEPT !.node[x].parent = xp] ELSE t IN
  IF xp = Nil THEN [t1 EXCEPT !.root = x]
  ELSE IF y = Left(t1, xp) THEN [t1 EXCEPT !.node[xp].left = x]
  ELSE [t1 EXCEPT !.node[xp].right = x]

\* a BLACK node was unlinked: the black heights are repaired from x upwards
Rebalance(t, y, x, xp) ==
  IF ColorOf(t, y) = BLACK THEN RbDeleteFixup(t, x, xp) ELSE t

DeleteSpliced(t, y) ==
  Rebalance(Unlink(t, y, SplicedChild(t, y), Parent(t, y)),
            y, SplicedChild(t, y), Parent(t, y))

\* deletion that unlinks the successor without the swap of key and value
DeleteNodeNoSwap(t, z, y) == DeleteSpliced(t, y)

DeleteNode(t, z, y) == DeleteSpliced(SwapKeyValue(t, z, y), y)

\* deletion that leaves the size counter as it is
TreeDeleteKeepSize(t, z) == DeleteNode(t, z, SplicedNode(t, z))

DecrementSize(t) == [t EXCEPT !.size = t.size - 1]

TreeDelete(t, z) == DecrementSize(DeleteNode(t, z, SplicedNode(t, z)))

TreeClear(t) == [t EXCEPT !.root = Nil, !.size = 0]

(* ---- the heap ---- *)
\* the nodes of the subtree at n, left to right
RECURSIVE InOrder(_, _)
InOrder(t, n) ==
  IF n = Nil THEN <<>>
  ELSE InOrder(t, Left(t, n)) \o <<n>> \o InOrder(t, Right(t, n))

Nodes(t) == InOrder(t, t.root)

InTree(t, n) == \E i \in 1..Len(Nodes(t)) : Nodes(t)[i] = n

\* A node's lifetime ends when it is removed from the tree.  Addresses carry
\* no meaning, so the live nodes are named by their position in the in-order
\* walk; a reference to a node that is no longer in the tree becomes Stale.
RECURSIVE Inverse(_, _, _)
Inverse(order, i, pos) ==
  IF i > Len(order) THEN pos ELSE Inverse(order, i + 1, [pos EXCEPT ![order[i]] = i])

\* the new address of every node of the heap
Positions(t) == Inverse(Nodes(t), 1, [m \in 1..Len(t.node) |-> Stale])

Moved(pos, n) == IF n = Nil \/ n = Stale THEN n ELSE pos[n]

CompactAt(t, pos) ==
  LET order == Nodes(t) IN
  [root |-> Moved(pos, t.root),
   size |-> t.size,
   node |-> [i \in 1..Len(order) |->
               LET m == t.node[order[i]] IN
               [key |-> m.key,
                value |-> m.value,
                color |-> m.color,
                parent |-> Moved(pos, m.parent),
                left |-> Moved(pos, m.left),
                right |-> Moved(pos, m.right)]]]

Compact(t) == CompactAt(t, Positions(t))

\* where a reference held outside the tree points after Compact
Relocate(t, n) == Moved(Positions(t), n)

(***************************************************************************)
(* The Map.  tree and locker are its two fields.  iter is the node field   *)
(* of the MapIterator the caller holds.  last is the call that returned    *)
(* last: its name, its key and value arguments, whether it came upon a     *)
(* node, and what it returned.  calls holds, for every goroutine, the Map  *)
(* method it is inside.                                                    *)
(***************************************************************************)
VARIABLES tree, locker, iter, last, calls

vars == <<tree, locker, iter, last, calls>>

(* ---- the locker ---- *)
\* sync.FakeLocker (the default) and sync.RWMutex (WithGoroutineSafe);
\* waiters are the goroutines blocked in Lock / RLock, in the order they came
defaultLocker == [kind |-> "FakeLocker", writer |-> FALSE, readers |-> 0, waiters |-> <<>>]
RWMutex == [kind |-> "RWMutex", writer |-> FALSE, readers |-> 0, waiters |-> <<>>]

CanLock(l) == IF l.kind = "FakeLocker" THEN TRUE ELSE ~l.writer /\ l.readers = 0
CanRLock(l) == IF l.kind = "FakeLocker" THEN TRUE ELSE ~l.writer

\* every method locks on entry
LockModeShared(op) == "RLock"

\* m.locker.Lock() in Insert, Erase, EraseIter and Clear; m.locker.RLock() in
\* the other methods
LockMode(op) ==
  IF op \in {"Insert", "Erase", "EraseIter", "Clear"} THEN "Lock" ELSE "RLock"

CanAcquire(l, mode) == IF mode = "Lock" THEN CanLock(l) ELSE CanRLock(l)

Acquire(l, mode) ==
  IF l.kind = "FakeLocker" THEN l
  ELSE IF mode = "Lock" THEN [l EXCEPT !.writer = TRUE]
  ELSE [l EXCEPT !.readers = l.readers + 1]

\* a read call that keeps its shared lock when it returns
ReleaseWriterOnly(l, mode) ==
  IF l.kind = "FakeLocker" THEN l
  ELSE IF mode = "Lock" THEN [l EXCEPT !.writer = FALSE]
  ELSE l

\* the deferred Unlock / RUnlock
Release(l, mode) ==
  IF l.kind = "FakeLocker" THEN l
  ELSE IF mode = "Lock" THEN [l EXCEPT !.writer = FALSE]
  ELSE [l EXCEPT !.readers = l.readers - 1]

(* ---- the bodies of the Map methods, between Lock and Unlock ---- *)
SetValue(t, n, value) == [t EXCEPT !.node[n].value = value]

\* Insert that leaves the value of a node it finds as it is
InsertApplyNoUpdate(t, node, key, value) ==
  IF node # Nil THEN t ELSE TreeInsert(t, key, value)

\* Insert once FindNode has answered
InsertApply(t, node, key, value) ==
  IF node # Nil THEN SetValue(t, node, value) ELSE TreeInsert(t, key, value)

\* Insert without the FindNode check
MapInsertNoFind(t, key, value) == TreeInsert(t, key, value)

MapInsert(t, key, value) == InsertApply(t, FindNode(t, key), key, value)

MapGet(t, key) ==
  LET node == FindNode(t, key) IN
  IF node # Nil THEN ValueOf(t, node) ELSE NilVal

\* Erase once FindNode has answered
EraseApply(t, node) == IF node # Nil THEN TreeDelete(t, node) ELSE t

\* Erase that looks its node up with FindLowerBoundNode
MapEraseLowerBound(t, key) == EraseApply(t, FindLowerBoundNode(t, key))

MapErase(t, key) == EraseApply(t, FindNode(t, key))

\* arg is the iterator passed in: isMap tells whether it is a *MapIterator
MapEraseIter(t, arg) == IF arg.isMap THEN TreeDelete(t, arg.node) ELSE t

MapFind(t, key) == FindNode(t, key)

\* LowerBound that delegates to FindNode
MapLowerBoundAsFind(t, key) == FindNode(t, key)

MapLowerBound(t, key) == FindLowerBoundNode(t, key)
MapBegin(t) == TreeFirst(t)
MapFirst(t) == TreeFirst(t)

\* Last that returns what First returns
MapLastAsFirst(t) == TreeFirst(t)

MapLast(t) == TreeLast(t)
\* Clear that detaches the root and leaves the size counter as it is
MapClearKeepSize(t) == [t EXCEPT !.root = Nil]

MapClear(t) == TreeClear(t)
MapContains(t, key) == TreeFind(t, key) # NilVal
MapSize(t) == t.size

\* the in-order walk First -> Successor, handing each pair to the visitor; the
\* visitor answers "stop" at its stopAt-th call
RECURSIVE Walk(_, _, _, _)
Walk(t, n, visits, stopAt) ==
  IF n = Nil THEN <<>>
  ELSE IF visits + 1 = stopAt THEN << <<KeyOf(t, n), ValueOf(t, n)>> >>
  ELSE << <<KeyOf(t, n), ValueOf(t, n)>> >> \o Walk(t, Successor(t, n), visits + 1, stopAt)

TreeTraversal(t, stopAt) == Walk(t, TreeFirst(t), 0, stopAt)
\* Traversal that walks on after the visitor has answered "stop"
MapTraversalNoStop(t, stopAt) == TreeTraversal(t, 0)

MapTraversal(t, stopAt) == TreeTraversal(t, stopAt)

(* ---- MapIterator ---- *)
IsValid(n) == n # Nil
IterNext(t, n) == Successor(t, n)
IterPrev(t, n) == Predecessor(t, n)

\* the iterators a caller can pass to EraseIter: a MapIterator on a node of
\* the tree, or an iterator of some other type
IteratorAt(n) == [isMap |-> TRUE, node |-> n]
OtherIterator == [isMap |-> FALSE, node |-> Nil]

EraseIterArgs(t) == {IteratorAt(n) : n \in 1..Len(t.node)} \cup {OtherIterator}

(* ---- a call: the method, its arguments, its local node, its position ---- *)
\* key also carries the visitor's stopAt of a Traversal
Call(op, key, val, arg) ==
  [op |-> op, key |-> key, val |-> val, arg |-> arg, node |-> Nil, pc |-> "locked"]

Idle == [op |-> "idle", key |-> 0, val |-> 0, arg |-> OtherIterator, node |-> Nil,
         pc |-> "idle"]

Returned(op, key, val, found, r) ==
  [op |-> op, key |-> key, val |-> val, found |-> found, ret |-> r]

\* the record of a call of which only the name is kept
Brief(op) == Returned(op, 0, 0, FALSE, 0)

SeekOps == {"Find", "LowerBound", "Begin", "First", "Last"}

\* the tree the body of a call leaves behind
Body(t, c) ==
  CASE c.op = "Insert" -> MapInsert(t, c.key, c.val)
    [] c.op = "Erase" -> MapErase(t, c.key)
    [] c.op = "EraseIter" -> MapEraseIter(t, c.arg)
    [] c.op = "Clear" -> MapClear(t)
    [] OTHER -> t

\* what a call returns
Result(t, c) ==
  CASE c.op = "Get" -> MapGet(t, c.key)
    [] c.op = "Contains" -> MapContains(t, c.key)
    [] c.op = "Size" -> MapSize(t)
    [] c.op = "Traversal" -> MapTraversal(t, c.key)
    [] c.op = "Find" -> MapFind(t, c.key)
    [] c.op = "LowerBound" -> MapLowerBound(t, c.key)
    [] c.op = "Begin" -> MapBegin(t)
    [] c.op = "First" -> MapFirst(t)
    [] c.op = "Last" -> MapLast(t)
    [] OTHER -> 0

\* New()
Init ==
  /\ tree = EmptyTree
  /\ locker = defaultLocker
  /\ iter = Nil
  /\ last = Brief("New")
  /\ calls = [g \in Goroutines |-> Idle]

(* ---- a single caller: Lock, body and Unlock of a call in one step ---- *)
\* no goroutine is inside a call, and the lock of the method can be taken
Enter(op) ==
  /\ \A g \in Goroutines : calls[g].pc = "idle"
  /\ CanAcquire(locker, LockMode(op))

\* a writing method leaves the tree t behind and returns; r is its record
Write(t, r) ==
  /\ tree' = Compact(t)
  /\ iter' = Relocate(t, iter)
  /\ last' = r
  /\ UNCHANGED <<locker, calls>>

\* a reading method returns; r is its record
Read(r) ==
  /\ last' = r
  /\ UNCHANGED <<tree, locker, iter, calls>>

\* a method that returns an iterator: the caller holds it from now on
Seek(op, key, n) ==
  /\ iter' = n
  /\ last' = Returned(op, key, 0, n # Nil, n)
  /\ UNCHANGED <<tree, locker, calls>>

Insert(k, v) ==
  /\ Enter("Insert")
  /\ Write(MapInsert(tree, k, v), Returned("Insert", k, v, FindNode(tree, k) # Nil, 0))

Erase(k) ==
  /\ Enter("Erase")
  /\ Write(MapErase(tree, k), Returned("Erase", k, 0, FindNode(tree, k) # Nil, 0))

\* the record keeps the key under the iterator
EraseIter(arg) ==
  /\ Enter("EraseIter")
  /\ Write(MapEraseIter(tree, arg),
           Returned("EraseIter", IF arg.isMap THEN KeyOf(tree, arg.node) ELSE 0, 0,
                    arg.isMap, 0))

Clear ==
  /\ Enter("Clear")
  /\ Write(MapClear(tree), Brief("Clear"))

\* Get that stores a nil value under a key it does not find
GetOrInsert(k) ==
  /\ Enter("Get")
  /\ Write(IF FindNode(tree, k) # Nil THEN tree ELSE TreeInsert(tree, k, NilVal),
           Returned("Get", k, 0, FindNode(tree, k) # Nil, MapGet(tree, k)))

Get(k) ==
  /\ Enter("Get")
  /\ Read(Returned("Get", k, 0, FindNode(tree, k) # Nil, MapGet(tree, k)))

Contains(k) ==
  /\ Enter("Contains")
  /\ Read(Returned("Contains", k, 0, FindNode(tree, k) # Nil, MapContains(tree, k)))

Size ==
  /\ Enter("Size")
  /\ Read(Returned("Size", 0, 0, FALSE, MapSize(tree)))

Traversal(stopAt) ==
  /\ Enter("Traversal")
  /\ Read(Returned("Traversal", stopAt, 0, FALSE, MapTraversal(tree, stopAt)))

Find(k) ==
  /\ Enter("Find")
  /\ Seek("Find", k, MapFind(tree, k))

LowerBound(k) ==
  /\ Enter("LowerBound")
  /\ Seek("LowerBound", k, MapLowerBound(tree, k))

Begin ==
  /\ Enter("Begin")
  /\ Seek("Begin", 0, MapBegin(tree))

First ==
  /\ Enter("First")
  /\ Seek("First", 0, MapFirst(tree))

Last ==
  /\ Enter("Last")
  /\ Seek("Last", 0, MapLast(tree))

\* stepping the held iterator; it must be on a node of the tree
StepNext ==
  /\ iter # Nil /\ iter # Stale
  /\ iter' = IterNext(tree, iter)
  /\ last' = Returned("Next", KeyOf(tree, iter), 0, TRUE, iter')
  /\ UNCHANGED <<tree, locker, calls>>

StepPrev ==
  /\ iter # Nil /\ iter # Stale
  /\ iter' = IterPrev(tree, iter)
  /\ last' = Returned("Prev", KeyOf(tree, iter), 0, TRUE, iter')
  /\ UNCHANGED <<tree, locker, calls>>

Next ==
  \/ \E k \in Keys, v \in Vals : Insert(k, v)
  \/ \E k \in Keys : Erase(k)
  \/ \E arg \in EraseIterArgs(tree) : EraseIter(arg)
  \/ Clear
  \/ \E k \in Keys : Get(k)
  \/ \E k \in Keys : Contains(k)
  \/ Size
  \/ \E stopAt \in 0..MaxKey : Traversal(stopAt)
  \/ \E k \in Keys : Find(k)
  \/ \E k \in 0..(MaxKey + 1) : LowerBound(k)
  \/ Begin
  \/ First
  \/ Last
  \/ StepNext
  \/ StepPrev

Spec == Init /\ [][Next]_vars

\* the calls that change the map, each with the record of what it did
NextWrite ==
  \/ \E k \in Keys, v \in Vals : Insert(k, v)
  \/ \E k \in Keys : Erase(k)
  \/ \E arg \in EraseIterArgs(tree) : EraseIter(arg)
  \/ Clear

SpecWrite == Init /\ [][NextWrite]_vars

\* the calls that change the map, a caller's Find and its Traversal
NextVisit ==
  \/ \E k \in Keys, v \in Vals : Insert(k, v)
  \/ \E k \in Keys : Erase(k)
  \/ Clear
  \/ \E k \in Keys : Find(k)
  \/ \E stopAt \in 0..MaxKey : Traversal(stopAt)

SpecVisit == Init /\ [][NextVisit]_vars

\* the tree engine under long sequences of mutations, by key and through an
\* iterator; of the last call only the name is kept
TreeInsertCall(k) ==
  /\ Enter("Insert")
  /\ Write(MapInsert(tree, k, 1), Brief("Insert"))

TreeEraseCall(k) ==
  /\ Enter("Erase")
  /\ Write(MapErase(tree, k), Brief("Erase"))

TreeEraseIterCall(arg) ==
  /\ Enter("EraseIter")
  /\ Write(MapEraseIter(tree, arg), Brief("EraseIter"))

TreeClearCall ==
  /\ Enter("Clear")
  /\ Write(MapClear(tree), Brief("Clear"))

NextTree ==
  \/ \E k \in TreeKeys : TreeInsertCall(k)
  \/ \E k \in TreeKeys : TreeEraseCall(k)
  \/ \E arg \in EraseIterArgs(tree) : TreeEraseIterCall(arg)
  \/ TreeClearCall

SpecTree == Init /\ [][NextTree]_vars

(***************************************************************************)
(* Goroutines on a map built with WithGoroutineSafe.  A call is entered by *)
(* taking the lock, runs its body, and gives the lock back as it returns;  *)
(* Insert and Erase run FindNode and the update as two steps.  What a call *)
(* returns is not kept, except the iterator of Find, LowerBound, Begin,    *)
(* First and Last, which goes to iter.                                     *)
(***************************************************************************)
\* New(WithGoroutineSafe())
InitSafe ==
  /\ tree = EmptyTree
  /\ locker = RWMutex
  /\ iter = Nil
  /\ last = Brief("New")
  /\ calls = [g \in Goroutines |-> Idle]

SafeCalls(t) ==
  {Call("Insert", k, v, OtherIterator) : k \in SafeKeys, v \in Vals}
    \cup {Call(op, k, 0, OtherIterator) :
            op \in {"Erase", "Get", "Contains", "Find", "LowerBound"}, k \in SafeKeys}
    \cup {Call("EraseIter", 0, 0, arg) : arg \in EraseIterArgs(t)}
    \cup {Call(op, 0, 0, OtherIterator) : op \in {"Clear", "Size", "Begin", "First", "Last"}}
    \cup {Call("Traversal", stopAt, 0, OtherIterator) : stopAt \in 0..1}

\* m.locker.Lock() / m.locker.RLock() on entry
GoLock(g, c) ==
  /\ calls[g].pc = "idle"
  /\ CanAcquire(locker, LockMode(c.op))
  /\ locker' = Acquire(locker, LockMode(c.op))
  /\ calls' = [calls EXCEPT ![g] = c]
  /\ UNCHANGED <<tree, iter, last>>

\* node := m.tree.FindNode(key)
GoFind(g) ==
  /\ calls[g].pc = "locked"
  /\ calls[g].op \in {"Insert", "Erase"}
  /\ calls' = [calls EXCEPT ![g].node = FindNode(tree, calls[g].key), ![g].pc = "found"]
  /\ UNCHANGED <<tree, locker, iter, last>>

\* the body of a call from where GoFind left it
Rest(t, c) ==
  CASE c.op = "Insert" -> InsertApply(t, c.node, c.key, c.val)
    [] c.op = "Erase" -> EraseApply(t, c.node)
    [] OTHER -> Body(t, c)

RelocateCall(t, c) ==
  [c EXCEPT !.node = Relocate(t, c.node), !.arg.node = Relocate(t, c.arg.node)]

\* the rest of the body, and the deferred Unlock / RUnlock
Finish(g) ==
  LET c == calls[g] IN
  /\ IF c.op \in {"Insert", "Erase"} THEN c.pc = "found" ELSE c.pc = "locked"
  /\ tree' = Compact(Rest(tree, c))
  /\ iter' = IF c.op \in SeekOps THEN Result(tree, c) ELSE Relocate(Rest(tree, c), iter)
  /\ locker' = Release(locker, LockMode(c.op))
  /\ calls' = [h \in Goroutines |->
                 IF h = g THEN Idle ELSE RelocateCall(Rest(tree, c), calls[h])]

GoReturn(g) ==
  /\ Finish(g)
  /\ UNCHANGED last

NextSafe ==
  \/ \E g \in Goroutines : \E c \in SafeCalls(tree) : GoLock(g, c)
  \/ \E g \in Goroutines : GoFind(g)
  \/ \E g \in Goroutines : GoReturn(g)

SpecSafe == InitSafe /\ [][NextSafe]_vars

(***************************************************************************)
(* A caller that looks before it acts.  Goroutine 1 calls Find, Contains,  *)
(* LowerBound, Begin and Insert, one call after the other, and keeps the   *)
(* iterator it is handed in iter; the other goroutines call Insert, Erase, *)
(* EraseIter and Clear.  Every goroutine inserts its own number as value,  *)
(* so a value tells whose Insert stored it.  last is what the last call of *)
(* goroutine 1 returned to it.                                             *)
(***************************************************************************)
Caller == 1

CallerCalls ==
  {Call(op, k, 0, OtherIterator) : op \in {"Find", "Contains", "LowerBound"}, k \in SafeKeys}
    \cup {Call("Begin", 0, 0, OtherIterator)}
    \cup {Call("Insert", k, Caller, OtherIterator) : k \in SafeKeys}

OtherCalls(g, t) ==
  {Call("Insert", k, g, OtherIterator) : k \in SafeKeys}
    \cup {Call("Erase", k, 0, OtherIterator) : k \in SafeKeys}
    \cup {Call("EraseIter", 0, 0, IteratorAt(n)) : n \in 1..Len(t.node)}
    \cup {Call("Clear", 0, 0, OtherIterator)}

SeqCalls(g, t) == IF g = Caller THEN CallerCalls ELSE OtherCalls(g, t)

\* what a call hands back to its caller: whether it came upon the key, and
\* the value it saw there
Observed(t, c) ==
  Returned(c.op, c.key, c.val,
           IF c.op \in SeekOps THEN Result(t, c) # Nil ELSE FindNode(t, c.key) # Nil,
           IF c.op \in SeekOps /\ Result(t, c) # Nil THEN ValueOf(t, Result(t, c)) ELSE 0)

SeqReturn(g) ==
  /\ Finish(g)
  /\ last' = IF g = Caller THEN Observed(tree, calls[g]) ELSE last

NextSeq ==
  \/ \E g \in Goroutines : \E c \in SeqCalls(g, tree) : GoLock(g, c)
  \/ \E g \in Goroutines : GoFind(g)
  \/ \E g \in Goroutines : SeqReturn(g)

SpecSeq == InitSafe /\ [][NextSeq]_vars

(***************************************************************************)
(* Calls that block.  A goroutine that calls a method comes to its Lock /  *)
(* RLock and waits there until the lock is handed to it; sync.RWMutex      *)
(* holds later RLocks back behind a blocked Lock and hands a starving      *)
(* waiter the lock first, which is modelled as admission in the order of   *)
(* arrival.  Every method is called; EraseIter is called with an iterator  *)
(* of another container, since the node of a map iterator may be removed   *)
(* while the call waits, and what Delete does with it then is undefined.   *)
(***************************************************************************)
FairCalls ==
  {Call("Insert", 1, 1, OtherIterator)}
    \cup {Call(op, 1, 0, OtherIterator) :
            op \in {"Erase", "Get", "Contains", "Find", "LowerBound"}}
    \cup {Call(op, 0, 0, OtherIterator) :
            op \in {"EraseIter", "Clear", "Size", "Begin", "First", "Last", "Traversal"}}

\* the goroutine calls the method and comes to m.locker.Lock() / RLock()
GoCall(g, c) ==
  /\ calls[g].pc = "idle"
  /\ calls' = [calls EXCEPT ![g] = [c EXCEPT !.pc = "waiting"]]
  /\ locker' = [locker EXCEPT !.waiters = Append(@, g)]
  /\ UNCHANGED <<tree, iter, last>>

\* m.locker.Lock() / m.locker.RLock() returns
GoAcquire(g) ==
  /\ calls[g].pc = "waiting"
  /\ locker.waiters # <<>> /\ Head(locker.waiters) = g
  /\ CanAcquire(locker, LockMode(calls[g].op))
  /\ locker' = Acquire([locker EXCEPT !.waiters = Tail(@)], LockMode(calls[g].op))
  /\ calls' = [calls EXCEPT ![g].pc = "locked"]
  /\ UNCHANGED <<tree, iter, last>>

NextFair ==
  \/ \E g \in Goroutines : \E c \in FairCalls : GoCall(g, c)
  \/ \E g \in Goroutines : GoAcquire(g)
  \/ \E g \in Goroutines : GoFind(g)
  \/ \E g \in Goroutines : GoReturn(g)

\* a goroutine that can run does run in the end
Fairness ==
  \A g \in Goroutines :
    WF_vars(GoAcquire(g)) /\ WF_vars(GoFind(g)) /\ WF_vars(GoReturn(g))

SpecFair == InitSafe /\ [][NextFair]_vars /\ Fairness

(***************************************************************************)
(* Properties                                                              *)
(***************************************************************************)
KeysInOrder(t) == [i \in 1..Len(Nodes(t)) |-> KeyOf(t, Nodes(t)[i])]

\* the keys held by the nodes of the tree
KeysOf(t) == {KeyOf(t, Nodes(t)[i]) : i \in 1..Len(Nodes(t))}

Absent(t, k) ==
  /\ MapGet(t, k) = NilVal
  /\ ~IsValid(MapFind(t, k))
  /\ ~MapContains(t, k)
  /\ TreeFind(t, k) = NilVal

\* C1: after Insert(k, v) a lookup of k (Get, Find, tree Search) returns v;
\* after erasing the entry of k (Erase(k) or EraseIter(Find(k))) a lookup of k
\* returns absent: Get nil, Find an invalid iterator, Contains false.
C1_RoundTrip ==
  /\ last.op = "Insert" =>
       /\ MapGet(tree, last.key) = last.val
       /\ IsValid(MapFind(tree, last.key))
       /\ ValueOf(tree, MapFind(tree, last.key)) = last.val
       /\ TreeFind(tree, last.key) = last.val
  /\ (last.op \in {"Erase", "EraseIter"} /\ last.found) => Absent(tree, last.key)

C1_Witness == last.op = "Erase" /\ last.found /\ Len(Nodes(tree)) >= 2

NoEqualKeys(t) ==
  \A i, j \in 1..Len(Nodes(t)) :
    i # j => keyCmp(KeyOf(t, Nodes(t)[i]), KeyOf(t, Nodes(t)[j])) # 0

\* C2: Insert(k, v) on a key that is present is an update: the value of k
\* becomes v, Size() and the keys stay as they were, and the map never holds
\* two entries whose keys compare equal.
C2_InsertUpdates ==
  /\ [](NoEqualKeys(tree))
  /\ [][(last'.op = "Insert" /\ last'.key \in KeysOf(tree)) =>
          /\ MapGet(tree', last'.key) = last'.val
          /\ MapSize(tree') = MapSize(tree)
          /\ Len(Nodes(tree')) = Len(Nodes(tree))
          /\ KeysInOrder(tree') = KeysInOrder(tree)]_vars

C2_Witness == last.op = "Insert" /\ last.found /\ MapSize(tree) >= 2

StrictlyIncreasing(s) == \A i \in 1..(Len(s) - 1) : keyCmp(s[i], s[i + 1]) < 0

\* the keys of the subtree at n
SubtreeKeys(t, n) == {KeyOf(t, InOrder(t, n)[i]) : i \in 1..Len(InOrder(t, n))}

BstAt(t, n) ==
  /\ \A k \in SubtreeKeys(t, Left(t, n)) : keyCmp(k, KeyOf(t, n)) < 0
  /\ \A k \in SubtreeKeys(t, Right(t, n)) : keyCmp(KeyOf(t, n), k) < 0

\* C3: after every sequence of Insert, Erase, EraseIter and Clear calls the
\* in-order walk of the tree yields strictly increasing keys, and the
\* binary-search-tree property holds at every node.
C3_Ordering ==
  /\ StrictlyIncreasing(KeysInOrder(tree))
  /\ \A i \in 1..Len(Nodes(tree)) : BstAt(tree, Nodes(tree)[i])

C3_Witness == last.op = "EraseIter" /\ Len(Nodes(tree)) >= 6

\* the number of BLACK nodes on every path from n down to a nil leaf, or -1
\* when two such paths disagree
RECURSIVE BlackHeight(_, _)
BlackHeight(t, n) ==
  IF n = Nil THEN 0
  ELSE LET l == BlackHeight(t, Left(t, n))
           r == BlackHeight(t, Right(t, n))
       IN IF l < 0 \/ r < 0 \/ l # r THEN 0 - 1
          ELSE l + (IF ColorOf(t, n) = BLACK THEN 1 ELSE 0)

NoRedRed(t) ==
  \A i \in 1..Len(Nodes(t)) :
    LET n == Nodes(t)[i] IN
    ColorOf(t, n) = RED =>
      ColorOf(t, Left(t, n)) = BLACK /\ ColorOf(t, Right(t, n)) = BLACK

Balanced(t) ==
  /\ ColorOf(t, t.root) = BLACK
  /\ NoRedRed(t)
  /\ BlackHeight(t, t.root) >= 0

\* insert 5, 3, 8, 1, 4, 7, 9 in that order, then delete 5
ScenarioInserts == <<5, 3, 8, 1, 4, 7, 9>>

RECURSIVE InsertAll(_, _, _)
InsertAll(t, ks, i) ==
  IF i > Len(ks) THEN t ELSE InsertAll(Compact(MapInsert(t, ks[i], 1)), ks, i + 1)

ScenarioTree == Compact(MapErase(InsertAll(EmptyTree, ScenarioInserts, 1), 5))

\* C4: in every reachable tree the root is BLACK (or the tree is empty), no
\* RED node has a RED child, and all paths from a node down to a nil leaf
\* hold the same number of BLACK nodes.
C4_Balance == Balanced(tree)

\* the tree after inserting [5,3,8,1,4,7,9] and deleting 5
C4_Witness ==
  /\ last.op = "Erase"
  /\ tree = ScenarioTree
  /\ KeysInOrder(tree) = <<1, 3, 4, 7, 8, 9>>

\* C5: in every reachable state Size() equals the number of nodes reachable
\* from the root, which is the number of pairs a full Traversal visits.
C5_SizeConsistent ==
  /\ MapSize(tree) = Len(Nodes(tree))
  /\ MapSize(tree) = Len(MapTraversal(tree, 0))
  /\ last.op = "Size" => last.ret = Len(Nodes(tree))

C5_Witness == last.op = "Size" /\ last.ret >= 2

\* the smallest of a non-empty set of keys
Least(S) == CHOOSE k \in S : \A m \in S : keyCmp(k, m) <= 0

LowerBoundIs(t, q, n) ==
  LET above == {k \in KeysOf(t) : keyCmp(k, q) >= 0} IN
  IF above = {} THEN ~IsValid(n)
  ELSE IsValid(n) /\ KeyOf(t, n) = Least(above)

\* C6: for every query q, LowerBound(q) returns the entry with the smallest
\* key >= q, and an invalid iterator when q is greater than every key or the
\* map is empty.
C6_LowerBound ==
  /\ \A q \in 0..(MaxKey + 1) : LowerBoundIs(tree, q, MapLowerBound(tree, q))
  /\ last.op = "LowerBound" => last.ret = iter /\ LowerBoundIs(tree, last.key, iter)

\* a query that is not a key, answered with a key that is not the smallest
C6_Witness ==
  /\ last.op = "LowerBound" /\ last.found
  /\ last.key \notin KeysOf(tree)
  /\ iter # MapFirst(tree)

\* the keys met from n on by Next() (forward) or Prev(), at most fuel of them
RECURSIVE Visit(_, _, _, _)
Visit(t, n, forward, fuel) ==
  IF ~IsValid(n) \/ fuel = 0 THEN <<>>
  ELSE <<KeyOf(t, n)>>
         \o Visit(t, IF forward THEN IterNext(t, n) ELSE IterPrev(t, n), forward, fuel - 1)

StrictlyDecreasing(s) == \A i \in 1..(Len(s) - 1) : keyCmp(s[i], s[i + 1]) > 0

\* C7: from First() / Begin(), Next() visits exactly Size() entries in
\* strictly ascending key order and then the iterator is invalid; from
\* Last(), Prev() visits exactly Size() entries in strictly descending order
\* and then the iterator is invalid; on an empty map First() and Last() are
\* invalid.
C7_IteratorExhaustion ==
  /\ Len(Visit(tree, MapFirst(tree), TRUE, MapSize(tree) + 1)) = MapSize(tree)
  /\ Len(Visit(tree, MapBegin(tree), TRUE, MapSize(tree) + 1)) = MapSize(tree)
  /\ StrictlyIncreasing(Visit(tree, MapFirst(tree), TRUE, MapSize(tree) + 1))
  /\ Len(Visit(tree, MapLast(tree), FALSE, MapSize(tree) + 1)) = MapSize(tree)
  /\ StrictlyDecreasing(Visit(tree, MapLast(tree), FALSE, MapSize(tree) + 1))
  /\ MapSize(tree) = 0 => ~IsValid(MapFirst(tree)) /\ ~IsValid(MapLast(tree))

\* Next() has just stepped off the largest key
C7_Witness ==
  /\ last.op = "Next" /\ ~IsValid(iter)
  /\ MapSize(tree) >= 3
  /\ last.key = KeyOf(tree, MapLast(tree))

WriteOps == {"Insert", "Erase", "EraseIter", "Clear"}
ReadOps ==
  {"Get", "Find", "LowerBound", "Begin", "First", "Last", "Contains", "Size", "Traversal"}

InCall(g) == calls[g].pc # "idle"

\* C8: on a map built with WithGoroutineSafe every call holds one lock from
\* entry to return; a write call is never inside the lock together with any
\* other call, read calls overlap only with read calls, and the update of an
\* Insert or Erase acts on the tree its FindNode saw.
C8_PerCallAtomicity ==
  /\ \A g \in Goroutines : InCall(g) => calls[g].op \in WriteOps \cup ReadOps
  /\ \A g, h \in Goroutines :
       (g # h /\ InCall(g) /\ InCall(h)) =>
         calls[g].op \in ReadOps /\ calls[h].op \in ReadOps
  /\ locker.writer = (\E g \in Goroutines : InCall(g) /\ calls[g].op \in WriteOps)
  /\ locker.readers = Cardinality({g \in Goroutines : InCall(g) /\ calls[g].op \in ReadOps})
  /\ \A g \in Goroutines :
       calls[g].pc = "found" => calls[g].node = FindNode(tree, calls[g].key)

\* two read calls inside the lock together, on a map that holds an entry
C8_Witness ==
  /\ MapSize(tree) >= 1
  /\ \E g, h \in Goroutines :
       g # h /\ InCall(g) /\ InCall(h) /\ calls[g].op = "Get" /\ calls[h].op = "Traversal"

\* the held iterator is on a node of the tree
OnNode(n) == n # Nil /\ n # Stale

Reverse(s) == [i \in 1..Len(s) |-> s[Len(s) + 1 - i]]

\* the keys of the tree from k on, and up to k, in ascending order
KeysFrom(t, k) == SelectSeq(KeysInOrder(t), LAMBDA x : keyCmp(x, k) >= 0)
KeysUpTo(t, k) == SelectSeq(KeysInOrder(t), LAMBDA x : keyCmp(x, k) <= 0)

\* C9: an iterator on the node of key k stays valid across an Insert, Erase
\* or EraseIter of another key: it still reads k with k's value, and stepping
\* on with Next() / Prev() visits exactly the other keys of the map in order.
C9_IteratorStable ==
  [][(/\ OnNode(iter)
      /\ last'.op \in {"Insert", "Erase", "EraseIter"}
      /\ last'.key # KeyOf(tree, iter)) =>
       /\ OnNode(iter')
       /\ KeyOf(tree', iter') = KeyOf(tree, iter)
       /\ ValueOf(tree', iter') = ValueOf(tree, iter)
       /\ Visit(tree', iter', TRUE, MapSize(tree') + 1)
            = KeysFrom(tree', KeyOf(tree, iter))
       /\ Visit(tree', iter', FALSE, MapSize(tree') + 1)
            = Reverse(KeysUpTo(tree', KeyOf(tree, iter)))]_vars

\* C10: Erase(k) of an absent key returns and leaves keys, values, Size() and
\* the tree shape as they were; Get(k) of an absent key returns nil and
\* Find(k) an invalid iterator, and neither changes the map.
C10_KeyNotFound ==
  /\ []((last.op = "Get" /\ last.key \notin KeysOf(tree)) => last.ret = NilVal)
  /\ []((last.op = "Find" /\ last.key \notin KeysOf(tree)) =>
          ~IsValid(last.ret) /\ ~IsValid(iter))
  /\ [][(last'.op = "Erase" /\ last'.key \notin KeysOf(tree)) => tree' = tree]_vars
  /\ [][last'.op \in {"Get", "Find"} => tree' = tree]_vars

C10_Witness == last.op = "Erase" /\ ~last.found /\ MapSize(tree) >= 2

\* C11: Clear() leaves an empty map: no root, Size() 0, every key absent,
\* First() and Last() invalid; the map it leaves is the map New() returns, and
\* the maps built from it by later calls are ordered, balanced and counted.
C11_Clear ==
  /\ last.op = "Clear" =>
       /\ tree.root = Nil
       /\ MapSize(tree) = 0
       /\ \A k \in Keys : Absent(tree, k)
       /\ ~IsValid(MapFirst(tree)) /\ ~IsValid(MapLast(tree)) /\ ~IsValid(MapBegin(tree))
       /\ tree = EmptyTree
  /\ StrictlyIncreasing(KeysInOrder(tree))
  /\ Balanced(tree)
  /\ MapSize(tree) = Len(Nodes(tree))

\* Clear() on a map that held the node under the caller's iterator
C11_Witness == last.op = "Clear" /\ iter = Stale

\* the key/value pairs of the map in ascending key order
Pairs(t) == [i \in 1..Len(Nodes(t)) |-> <<KeyOf(t, Nodes(t)[i]), ValueOf(t, Nodes(t)[i])>>]

\* the calls a visitor gets that answers "stop" at its stopAt-th call (never,
\* when stopAt is 0 or more than the map holds)
Visited(t, stopAt) ==
  SubSeq(Pairs(t), 1, IF stopAt = 0 \/ stopAt > Len(Pairs(t)) THEN Len(Pairs(t)) ELSE stopAt)

\* C12: Traversal calls the visitor once per pair in strictly ascending key
\* order from the minimum key on; it stops right after the first call the
\* visitor answers with false, and otherwise visits all Size() pairs.
C12_Traversal ==
  /\ \A stopAt \in 0..(MaxKey + 1) :
       /\ MapTraversal(tree, stopAt) = Visited(tree, stopAt)
       /\ StrictlyIncreasing([i \in 1..Len(MapTraversal(tree, stopAt)) |->
                                 MapTraversal(tree, stopAt)[i][1]])
  /\ Len(MapTraversal(tree, 0)) = MapSize(tree)
  /\ MapSize(tree) > 0 =>
       MapTraversal(tree, 1) = << <<KeyOf(tree, MapFirst(tree)), ValueOf(tree, MapFirst(tree))>> >>
  /\ last.op = "Traversal" => last.ret = Visited(tree, last.key)

\* the visitor stopped a walk at the second of three pairs
C12_Witness ==
  /\ last.op = "Traversal" /\ last.key = 2 /\ MapSize(tree) = 3
  /\ Len(last.ret) = 2

\* the caller is inside Insert, past FindNode
CallerInserts == calls[Caller].op = "Insert" /\ calls[Caller].pc = "found"

\* C13: a caller's Find(k) / Contains(k) followed by Insert(k, v) is not
\* atomic.  No lock is held between the two calls, and the Insert acts on
\* the map as it is when it takes the lock, whatever the call before it
\* reported: k is stored with v, and Size() grows by one only when k is not
\* in the map at that moment.
C13_NoCrossCallAtomicity ==
  /\ []((\A g \in Goroutines : ~InCall(g)) => (~locker.writer /\ locker.readers = 0))
  /\ [](CallerInserts => calls[Caller].node = FindNode(tree, calls[Caller].key))
  /\ [][(CallerInserts /\ ~InCall(Caller)') =>
          /\ MapGet(tree', calls[Caller].key) = calls[Caller].val
          /\ MapSize(tree') =
               MapSize(tree) + (IF calls[Caller].key \in KeysOf(tree) THEN 0 ELSE 1)]_vars

\* the caller's Find or Contains reported k absent; by the time its Insert
\* holds the lock another goroutine's Insert has stored k, and the caller's
\* Insert is about to overwrite that value
C13_Witness ==
  /\ CallerInserts
  /\ last.op \in {"Find", "Contains"} /\ last.key = calls[Caller].key /\ ~last.found
  /\ calls[Caller].node # Nil
  /\ ValueOf(tree, calls[Caller].node) # calls[Caller].val

\* C14: the goroutine-safe option does not protect iterators.  The iterator
\* a call hands out keeps no lock, so a writer can take the lock while it is
\* held; it goes stale only through another goroutine's Erase, EraseIter or
\* Clear; and a stale iterator still answers IsValid() with true.
C14_IteratorsUnprotected ==
  /\ []((iter # Nil /\ \A g \in Goroutines : ~InCall(g)) => CanAcquire(locker, "Lock"))
  /\ [](iter = Stale => IsValid(iter))
  /\ [][(OnNode(iter) /\ iter' = Stale) =>
          \E g \in Goroutines \ {Caller} :
            /\ calls[g].op \in {"Erase", "EraseIter", "Clear"}
            /\ InCall(g) /\ ~InCall(g)']_vars

\* the caller's last call handed it an iterator on a node, and another
\* goroutine has removed that node since
C14_Witness ==
  /\ iter = Stale
  /\ last.op \in {"Find", "Begin", "LowerBound"} /\ last.found
  /\ \A g \in Goroutines : ~InCall(g)

\* the pairs p without the pair of key k
Without(p, k) == SelectSeq(p, LAMBDA e : e[1] # k)

\* the pairs u are the pairs p and the pair (k, v), which p does not hold
Added(p, u, k, v) ==
  /\ Len(u) = Len(p) + 1
  /\ Without(u, k) = p
  /\ \E i \in 1..Len(u) : u[i] = <<k, v>>

\* the pairs u are the pairs p without the pair of k, which p holds
Removed(p, u, k) ==
  /\ Len(u) + 1 = Len(p)
  /\ Without(p, k) = u

\* every key but k is looked up with the value it had
OthersKept(t, u, k) == \A j \in Keys \ {k} : MapGet(u, j) = MapGet(t, j)

\* C15: Insert(k, v) of an absent key adds exactly the pair (k, v) and one to
\* Size(); Erase(k) and EraseIter on the node of k remove exactly the pair
\* of k and take one from Size(); every other key keeps its value.
C15_SingleKeyEffect ==
  [][/\ (last'.op = "Insert" /\ ~last'.found) =>
          /\ MapSize(tree') = MapSize(tree) + 1
          /\ Added(Pairs(tree), Pairs(tree'), last'.key, last'.val)
          /\ OthersKept(tree, tree', last'.key)
     /\ (last'.op \in {"Erase", "EraseIter"} /\ last'.found) =>
          /\ MapSize(tree') = MapSize(tree) - 1
          /\ Removed(Pairs(tree), Pairs(tree'), last'.key)
          /\ OthersKept(tree, tree', last'.key)]_vars

\* Erase(2) on the map of 1, 2 and 3: the node of 2 is the root and has two
\* children
C15_Witness ==
  /\ last.op = "Erase" /\ last.found /\ last.key = 2
  /\ KeysInOrder(tree) = <<1, 3>>

\* C16: Get, Find, LowerBound, Begin, First, Last, Contains, Size and
\* Traversal leave keys, values, colors, links and the size counter as they
\* are, whether or not the key asked for is in the map.
C16_ReadsReadOnly == [][last'.op \in ReadOps => tree' = tree]_vars

\* Get of a key that is not in a map that holds other keys
C16_Witness ==
  /\ last.op = "Get" /\ ~last.found /\ last.ret = NilVal
  /\ MapSize(tree) >= 2

\* goroutine g is inside Insert, past FindNode, and returns with this step
InsertReturns(g) ==
  /\ calls[g].op = "Insert" /\ calls[g].pc = "found"
  /\ calls'[g].pc = "idle"

\* C17: Insert calls of several goroutines for one key never make a second
\* node for it: the map holds every key once and Size() counts it once, an
\* Insert that returns leaves its own value under its key, and the value of
\* a key changes with no other step, so it is the value of the Insert that
\* held the lock last.
C17_ConcurrentInsert ==
  /\ [](NoEqualKeys(tree) /\ MapSize(tree) = Len(Nodes(tree))
          /\ Cardinality(KeysOf(tree)) = MapSize(tree))
  /\ [][\A g \in Goroutines :
          InsertReturns(g) =>
            /\ MapGet(tree', calls[g].key) = calls[g].val
            /\ Len(Without(Pairs(tree'), calls[g].key)) + 1 = Len(Pairs(tree'))]_vars
  /\ [][\A k \in SafeKeys :
          (MapGet(tree', k) # MapGet(tree, k) /\ MapGet(tree', k) # NilVal) =>
            \E g \in Goroutines :
              InsertReturns(g) /\ calls[g].key = k /\ calls[g].val = MapGet(tree', k)]_vars

\* a goroutine holds the lock inside Insert(k) and has found the node that
\* the caller's Insert(k) made: it is about to replace the caller's value
C17_Witness ==
  \E g \in Goroutines \ {Caller} :
    /\ calls[g].op = "Insert" /\ calls[g].pc = "found"
    /\ calls[g].node # Nil
    /\ ValueOf(tree, calls[g].node) = Caller
    /\ MapSize(tree) = 1

\* goroutine g is inside the lock of its call
Holding(g) == calls[g].pc \in {"locked", "found"}

\* C18: every call returns and leaves no lock held.  A call holds the lock
\* it took, once, from the return of Lock / RLock to its own return and no
\* other: the write lock is taken exactly while a write call is inside, the
\* count of read locks is the number of read calls inside, and the blocked
\* goroutines are exactly those that wait.  When no call is in progress the
\* lock is free.  Under fair scheduling every call that was made returns:
\* every goroutine is outside of any call again and again.
C18_Termination ==
  /\ [](/\ locker.writer = (\E g \in Goroutines : Holding(g) /\ LockMode(calls[g].op) = "Lock")
        /\ locker.readers =
             Cardinality({g \in Goroutines : Holding(g) /\ LockMode(calls[g].op) = "RLock"})
        /\ \A g \in Goroutines :
             calls[g].pc = "waiting" <=> (\E i \in 1..Len(locker.waiters) : locker.waiters[i] = g))
  /\ []((\A g \in Goroutines : calls[g].pc = "idle") => locker = RWMutex)
  /\ \A g \in Goroutines : []<>(calls[g].pc = "idle")

\* an Insert holds the write lock and every other goroutine is blocked
\* behind it, a second writer among them
C18_Witness ==
  \E g \in Goroutines :
    /\ calls[g].op = "Insert" /\ calls[g].pc = "found"
    /\ \A h \in Goroutines \ {g} : calls[h].pc = "waiting"
    /\ \E h \in Goroutines \ {g} : calls[h].op = "Clear"

\* the nodes of the tree, as a set
NodeSet(t) == {Nodes(t)[i] : i \in 1..Len(Nodes(t))}

\* the node of the smallest key greater than the key of n, by the keys alone
NextByKey(t, n) ==
  LET greater == {m \in NodeSet(t) : keyCmp(KeyOf(t, n), KeyOf(t, m)) < 0} IN
  IF greater = {} THEN Nil
  ELSE CHOOSE m \in greater : \A o \in greater : keyCmp(KeyOf(t, m), KeyOf(t, o)) <= 0

\* the node of the largest key smaller than the key of n, by the keys alone
PrevByKey(t, n) ==
  LET smaller == {m \in NodeSet(t) : keyCmp(KeyOf(t, m), KeyOf(t, n)) < 0} IN
  IF smaller = {} THEN Nil
  ELSE CHOOSE m \in smaller : \A o \in smaller : keyCmp(KeyOf(t, o), KeyOf(t, m)) <= 0

\* C19: for every node n of a reachable tree Successor(n) is the node of the
\* smallest key greater than the key of n, absent only for the node of the
\* greatest key, and Predecessor(n) the node of the largest smaller key,
\* absent only for the node of the least key; Predecessor(Successor(n)) = n
\* and Successor(Predecessor(n)) = n wherever the inner node exists.
C19_SuccessorPredecessor ==
  \A n \in NodeSet(tree) :
    /\ Successor(tree, n) = NextByKey(tree, n)
    /\ Predecessor(tree, n) = PrevByKey(tree, n)
    /\ Successor(tree, n) = Nil <=> n = TreeLast(tree)
    /\ Predecessor(tree, n) = Nil <=> n = TreeFirst(tree)
    /\ Successor(tree, n) # Nil => Predecessor(tree, Successor(tree, n)) = n
    /\ Predecessor(tree, n) # Nil => Successor(tree, Predecessor(tree, n)) = n

\* a node without a right child whose successor is two or more levels up,
\* and a node without a left child whose predecessor is two or more levels up
C19_Witness ==
  /\ \E n \in NodeSet(tree) :
       /\ Right(tree, n) = Nil
       /\ Successor(tree, n) \notin {Nil, Parent(tree, n)}
  /\ \E n \in NodeSet(tree) :
       /\ Left(tree, n) = Nil
       /\ Predecessor(tree, n) \notin {Nil, Parent(tree, n)}
  /\ last.op \in {"Erase", "EraseIter"}

====
